---------------------------- MODULE Spec2Model ----------------------------
(***************************************************************************)
(* Synchronous data-parallel SGD training of husky's lib/ml models:        *)
(* Model (model.hpp), SGD (sgd.hpp), Regression (regression.hpp) and SVM   *)
(* (svm.hpp).  Every worker thread runs the same training call on its own  *)
(* partition of the data; the parameter vector lives in a ParameterBucket  *)
(* whose updates are buffered per worker and summed into the globally      *)
(* visible value when the aggregator channel is flushed at the end of a    *)
(* list_execute.                                                           *)
(*                                                                         *)
(* double values are modelled as exact rationals <<num, den>> in lowest    *)
(* terms with den > 0; <<0, 0>> stands for the NaN that 0.0 / 0 produces.  *)
(* Floating-point rounding is not modelled.                                *)
(***************************************************************************)
EXTENDS Integers, Sequences, FiniteSets, TLC

(***************************************************************************)
(* Bounds of the model.                                                    *)
(***************************************************************************)
MaxWorkers == 2
MaxLocal == 2
MaxIters == 4
MaxTest == 2
MaxFeatures == 1
MaxCalls == 2
MaxWeight == 2

(***************************************************************************)
(* double arithmetic, as exact rationals.                                  *)
(***************************************************************************)
Abs(x) == IF x < 0 THEN -x ELSE x

RECURSIVE GCD(_, _)
GCD(a, b) == IF b = 0 THEN a ELSE GCD(b, a % b)

Q(n, d) ==
    IF d = 0 THEN <<0, 0>>
    ELSE LET s == IF d < 0 THEN -1 ELSE 1
             g == GCD(Abs(n), Abs(d))
         IN  <<(s * n) \div g, (s * d) \div g>>

NaN == <<0, 0>>
QInt(n) == <<n, 1>>
QZero == <<0, 1>>
QOne == <<1, 1>>
QIsNaN(a) == a[2] = 0
QAdd(a, b) == IF QIsNaN(a) \/ QIsNaN(b) THEN NaN
              ELSE Q(a[1] * b[2] + b[1] * a[2], a[2] * b[2])
QNeg(a) == <<-a[1], a[2]>>
QMul(a, b) == IF QIsNaN(a) \/ QIsNaN(b) THEN NaN ELSE Q(a[1] * b[1], a[2] * b[2])
\* a / n for an int n converted to double: 0.0 / 0 is NaN
QDivInt(a, n) == IF QIsNaN(a) THEN NaN ELSE Q(a[1], a[2] * n)
\* comparisons with NaN are false
QLt(a, b) == ~QIsNaN(a) /\ ~QIsNaN(b) /\ a[1] * b[2] < b[1] * a[2]
QLe(a, b) == ~QIsNaN(a) /\ ~QIsNaN(b) /\ a[1] * b[2] <= b[1] * a[2]
QEq(a, b) == ~QIsNaN(a) /\ ~QIsNaN(b) /\ a = b

(***************************************************************************)
(* Dense vectors of doubles, indexed from 0 as in the source.              *)
(***************************************************************************)
VZero(n) == [i \in 0..(n - 1) |-> QZero]
VSize(v) == Cardinality(DOMAIN v)
VAdd(a, b) == [i \in DOMAIN a |-> QAdd(a[i], b[i])]
VScale(a, q) == [i \in DOMAIN a |-> QMul(a[i], q)]
VAddAt(v, i, delta) == [v EXCEPT ![i] = QAdd(@, delta)]


(***************************************************************************)
(* Labeled points.  x is a sparse vector: a sequence of <<fea, val>>       *)
(* pairs; y is the label.                                                  *)
(***************************************************************************)
Labels == {-1, 1}
Patterns == {"pos", "alt"}
\* the label of the j-th object (from 1) of the global list
PatternLabel(p, j) == IF p = "pos" \/ j % 2 = 1 THEN 1 ELSE -1
Example(p, j, nf) ==
    [x |-> IF nf = 0 THEN <<>> ELSE << <<nf - 1, <<1, 1>> >> >>, y |-> PatternLabel(p, j)]

(***************************************************************************)
(* ParameterBucket: the globally visible value and the per-worker buffered *)
(* updates that the next aggregator synchronization adds to it.            *)
(***************************************************************************)
EmptyStore == VZero(0)
ParamInit(n, val) == [i \in 0..(n - 1) |-> val]
ParamAt(store, i) == store[i]
GetAllParam(store) == store
GetNumParam(store) == VSize(store)
ParamUpdate(buffer, idx, delta) == VAddAt(buffer, idx, delta)

RECURSIVE ApplyCalls(_, _)
ApplyCalls(buffer, calls) ==
    IF calls = <<>> THEN buffer
    ELSE ApplyCalls(ParamUpdate(buffer, Head(calls)[1], Head(calls)[2]), Tail(calls))

RECURSIVE SumBuffers(_, _, _)
SumBuffers(buffers, k, n) ==
    IF k = 0 THEN VZero(n) ELSE VAdd(SumBuffers(buffers, k - 1, n), buffers[k - 1])

\* the aggregator synchronization of the parameter vector
MergeParam(store, buffers, nw) == VAdd(store, SumBuffers(buffers, nw, VSize(store)))

RECURSIVE SumQ(_, _)
SumQ(f, k) == IF k = 0 THEN QZero ELSE QAdd(SumQ(f, k - 1), f[k - 1])

(***************************************************************************)
(* Model::set_num_param                                                    *)
(***************************************************************************)
\* (mutant) one entry too many is allocated
SetNumParamOffByOne(store, n) == IF n > 0 THEN ParamInit(n + 1, QZero) ELSE store
SetNumParam(store, n) == IF n > 0 THEN ParamInit(n, QZero) ELSE store

(***************************************************************************)
(* The closures SVM's constructor installs.                                *)
(***************************************************************************)
RECURSIVE DotSparse(_, _)
DotSparse(vec, xs) ==
    IF xs = <<>> THEN QZero
    ELSE QAdd(QMul(vec[Head(xs)[1]], Head(xs)[2]), DotSparse(vec, Tail(xs)))

\* Vector::dot_with_intcpt: the last entry of vec is the intercept
DotWithIntcpt(vec, xs) == QAdd(DotSparse(vec, xs), vec[VSize(vec) - 1])

ScaleSparse(xs, q) == [k \in 1..Len(xs) |-> <<xs[k][1], QMul(xs[k][2], q)>>]
WithBias(xs, idx, val) == SelectSeq(xs, LAMBDA e : e[1] < idx) \o << <<idx, val>> >>

\* (mutant) a point on the margin counts as within it
InMarginInclusive(prod) == QLe(prod, QOne)
InMargin(prod) == QLt(prod, QOne)

\* (mutant) the intercept is set one past the last parameter
BiasIndexPastEnd(num_param) == num_param
\* X.set(num_param - 1, y)
BiasIndex(num_param) == num_param - 1

GradientFunc(obj, vec) ==
    LET y == QInt(obj.y)
        prod == QMul(DotWithIntcpt(vec, obj.x), y)
    IN  IF InMargin(prod)
        THEN WithBias(ScaleSparse(obj.x, y), BiasIndex(VSize(vec)), y)
        ELSE <<>>

\* the indices of the entries of a sparse vector, of a list of update calls
FeatureIndices(xs) == { xs[k][1] : k \in 1..Len(xs) }
CallIndices(calls) == { calls[k][1] : k \in 1..Len(calls) }
\* the indices of vec the gradient closure reads: dot_with_intcpt
GradientIndices(obj, vec) == FeatureIndices(obj.x) \cup {VSize(vec) - 1}
\* the indices the error closure passes to param_at
ErrorIndices(obj, store) == FeatureIndices(obj.x) \cup {GetNumParam(store) - 1}

\* (mutant) an indicator of exactly 0 is not counted
IsErrorStrict(indicator) == QLt(indicator, QZero)
IsError(indicator) == QLe(indicator, QZero)

ErrorFunc(obj, store) ==
    LET indicator == QMul(QAdd(DotSparse(store, obj.x),
                               ParamAt(store, GetNumParam(store) - 1)), QInt(obj.y))
    IN  IF IsError(indicator) THEN 1 ELSE 0

(***************************************************************************)
(* SGD::update_param, the body of the list_execute lambda: the new local   *)
(* copy and the param_list.update(idx, delta) calls issued for one object. *)
(***************************************************************************)
StepDelta(val, lr) == QMul(val, lr)
\* (mutant) the update is not scaled by the worker's share of the samples
UpdateDeltaUnscaled(delta, nl, ng) == delta
UpdateDelta(delta, nl, ng) == QDivInt(QMul(delta, QInt(nl)), ng)
\* (mutant) the local copy is left as the snapshot
LocalStepNone(vec, fea, delta) == vec
LocalStep(vec, fea, delta) == VAddAt(vec, fea, delta)

\* (mutant) only the first component of a gradient is sent to the store
GradCallsHeadOnly(grad, lr, nl, ng) ==
    IF grad = <<>> THEN <<>>
    ELSE << <<Head(grad)[1], QDivInt(QMul(QMul(Head(grad)[2], lr), QInt(nl)), ng)>> >>

RECURSIVE GradCalls(_, _, _, _)
GradCalls(grad, lr, nl, ng) ==
    IF grad = <<>> THEN <<>>
    ELSE << <<Head(grad)[1], UpdateDelta(StepDelta(Head(grad)[2], lr), nl, ng)>> >>
         \o GradCalls(Tail(grad), lr, nl, ng)

RECURSIVE GradLocal(_, _, _)
GradLocal(vec, grad, lr) ==
    IF grad = <<>> THEN vec
    ELSE GradLocal(LocalStep(vec, Head(grad)[1], StepDelta(Head(grad)[2], lr)),
                   Tail(grad), lr)

\* (mutant) the decay is not scaled by the learning rate
L2DeltaNoRate(v, lr, lambda) == QMul(QNeg(v), lambda)
\* SGD::l2_regularize: the update calls it issues
L2Delta(v, lr, lambda) == QMul(QMul(QNeg(v), lr), lambda)
L2Calls(store, lr, lambda) ==
    [k \in 1..GetNumParam(store) |-> <<k - 1, L2Delta(ParamAt(store, k - 1), lr, lambda)>>]

\* (mutant) list_execute without the aggregator channel: nothing is flushed
NoOutChannel == {}
\* the out-channels update_param hands to list_execute
UpdateParamChannels == {"ac"}


(***************************************************************************)
(* The job: which training call every worker makes, and with what.         *)
(*   cls      "train"      Regression::train                               *)
(*            "train_test" Regression::train_test                          *)
(*            "svm"        SVM::train                                      *)
(*   ctor     the constructor argument (_num_param, or _num_features for   *)
(*            SVM)                                                         *)
(*   data     the training partition of every worker                       *)
(*   test     the size of every worker's partition of the held-out list,   *)
(*            which global thread 0 holds whole                            *)
(*            "sgd"        a caller that drives SGD as SVM::train does but *)
(*                         hands its own norm to set_regularization        *)
(*   norm     the norm handed to SGD::set_regularization (0: never called) *)
(*   gradient_func, error_func, predict_func                               *)
(*            whether the closure is set (not nullptr) when the calls are  *)
(*            made                                                         *)
(*   before, after                                                         *)
(*            the calls of predict, avg_error and present_param that every *)
(*            worker makes before and after the training call              *)
(* The gradient closure is the hinge subgradient of svm.hpp for all; the   *)
(* error closure of a Regression is an input: its sum over a worker's      *)
(* partition is drawn when it is evaluated in training.                    *)
(***************************************************************************)
LearningRates == {QZero, Q(1, 2)}
LambdaSet == {QZero, Q(1, 2)}

NumParamArg(cls, ctor) == IF cls = "svm" THEN ctor + 1 ELSE ctor
NumFeatures(cls, ctor) == IF NumParamArg(cls, ctor) > 0 THEN NumParamArg(cls, ctor) - 1 ELSE 0

RECURSIVE SumInts(_, _)
SumInts(f, k) == IF k = 0 THEN 0 ELSE SumInts(f, k - 1) + f[k - 1]

\* the list of the pattern, split into consecutive blocks of the given sizes
DataOf(p, sizes, nf, k) ==
    [w \in 0..(k - 1) |->
        [j \in 1..sizes[w] |-> Example(p, SumInts(sizes, w) + j, nf)]]

\* the norm SVM::train hands to set_regularization
RegularizationNorm == 2

MkConfig(c, n, it, lr, la, rp, k, p, sizes, t) ==
    [cls |-> c, ctor |-> n, iters |-> it, learning_rate |-> lr,
     lambda |-> IF c \in {"svm", "sgd"} THEN la ELSE QZero,
     report_per_round |-> rp, nw |-> k,
     data |-> DataOf(p, sizes, NumFeatures(c, n), k),
     test |-> [w \in 0..(k - 1) |-> IF c = "train_test" /\ w = 0 THEN t ELSE 0],
     norm |-> IF c = "svm" THEN RegularizationNorm ELSE 0,
     gradient_func |-> TRUE, error_func |-> TRUE, predict_func |-> FALSE,
     before |-> <<>>, after |-> <<>>]

\* the constructor argument that gives MaxFeatures features
ValidCtor(c) == IF c = "svm" THEN MaxFeatures ELSE MaxFeatures + 1

VARIABLES
    cfg,              \* the job (never changes)
    param,            \* param_list_: the globally visible parameter vector
    local,            \* param_list_: every worker's buffered updates
    pc,               \* every worker's position in the training call
    bar,              \* which synchronization a worker waits in
    round,            \* the loop variable of train / train_test
    current_vec,      \* update_param's local copy of the parameters
    pos,              \* list_execute: objects of the partition already visited
    num_samples,      \* the global sample count a worker read
    num_samples_agg,  \* Aggregator<int>: [local, value]
    error_stat,       \* error_stat / loss_agg (reset each iteration)
    error_agg,        \* avg_error's error_agg
    test_samples_agg, \* avg_error's num_samples_agg
    pastError,
    currentError,
    trained,          \* Model::trained_
    error,            \* the message of the ASSERT_MSG that failed, or "none"
    \* history, for stating the properties
    snap,             \* the vector get_all_param returned at the start of the round
    issuedGrad,       \* sum of the deltas of the gradient update calls not yet merged
    issuedDecay,      \* sum of the deltas of the l2_regularize update calls not yet merged
    preSync,          \* param before the last synchronization
    mergedGrad,       \* issuedGrad of all workers at the last synchronization
    mergedDecay,      \* issuedDecay of all workers at the last synchronization
    decayCalls,       \* l2_regularize calls of every worker
    roundsApplied,    \* update_param calls that returned, per worker
    errHist,          \* the held-out errors a worker has seen
    \* the calls on the model outside training
    data,             \* every worker's partition of the list: objects [x, y]
    ip,               \* calls of cfg.before \o cfg.after a worker has completed
    ret,              \* the values avg_error has returned to a worker
    predicted,        \* the results of predict_func_ in a worker's last predict
    presented,        \* the vectors present_param has written to a worker's log
    \* one call of a closure
    closureIn,        \* <<[obj, vec]>>: the arguments, or <<>>
    gradOut,          \* <<what gradient_func_ returned>>, or <<>>
    errOut,           \* <<what error_func_ returned>>, or <<>>
    \* history of the calls of a round, for stating the properties
    updCalls,         \* the <<index, delta>> of the update calls of the lambda of
                      \* update_param, per worker, in the round it is in
    accessed,         \* the indices a worker has passed to the parameters
    contrib,          \* what a worker has added to error_stat / loss_agg in the
                      \* report of the round: <<value>>, or <<>>
    reported          \* <<the value thread 0 has logged for the round>>, or <<>>

progVars == <<cfg, param, local, pc, bar, round, current_vec, pos, num_samples,
              num_samples_agg, error_stat, error_agg, test_samples_agg,
              pastError, currentError, trained, error>>
histVars == <<snap, issuedGrad, issuedDecay, preSync, mergedGrad, mergedDecay,
              decayCalls, roundsApplied, errHist>>
modelVars == <<data, ip, ret, predicted, presented>>
fnVars == <<closureIn, gradOut, errOut>>
callVars == <<updCalls, accessed, contrib, reported>>
vars == <<progVars, histVars, modelVars, fnVars, callVars>>

Workers == 0..(cfg.nw - 1)
NP == GetNumParam(param)

NewIntAgg(nw) == [local |-> [w \in 0..(nw - 1) |-> 0], value |-> 0]
NewAgg(nw) == [local |-> [w \in 0..(nw - 1) |-> QZero], value |-> QZero]
AggUpdateInt(agg, w, v) == [agg EXCEPT !.local[w] = @ + v]
AggUpdate(agg, w, v) == [agg EXCEPT !.local[w] = QAdd(@, v)]
\* synchronization of an aggregator that keeps its aggregate
AggSyncInt(agg, nw) ==
    [local |-> [w \in 0..(nw - 1) |-> 0], value |-> agg.value + SumInts(agg.local, nw)]
\* synchronization of an aggregator that is reset each iteration, or was just created
AggSyncResetInt(agg, nw) ==
    [local |-> [w \in 0..(nw - 1) |-> 0], value |-> SumInts(agg.local, nw)]
AggSyncReset(agg, nw) ==
    [local |-> [w \in 0..(nw - 1) |-> QZero], value |-> SumQ(agg.local, nw)]

\* (mutant) error_stat keeps its aggregate over the synchronizations
ErrorStatKept(agg, nw) ==
    [local |-> [w \in 0..(nw - 1) |-> QZero],
     value |-> QAdd(agg.value, SumQ(agg.local, nw))]
\* error_stat.to_reset_each_iter() / loss_agg.to_reset_each_iter()
ErrorStatSync(agg, nw) == AggSyncReset(agg, nw)

InitWith(configs) ==
    /\ cfg \in configs
    /\ param = SetNumParam(EmptyStore, NumParamArg(cfg.cls, cfg.ctor))
    /\ local = [w \in Workers |-> VZero(NP)]
    /\ pc = [w \in Workers |-> "start"]
    /\ bar = [w \in Workers |-> "none"]
    /\ round = [w \in Workers |-> 0]
    /\ current_vec = [w \in Workers |-> VZero(NP)]
    /\ pos = [w \in Workers |-> 0]
    /\ num_samples = [w \in Workers |-> 0]
    /\ num_samples_agg = NewIntAgg(cfg.nw)
    /\ error_stat = NewAgg(cfg.nw)
    /\ error_agg = NewAgg(cfg.nw)
    /\ test_samples_agg = NewIntAgg(cfg.nw)
    /\ pastError = [w \in Workers |-> QZero]
    /\ currentError = [w \in Workers |-> QZero]
    /\ trained = [w \in Workers |-> FALSE]
    /\ error = [w \in Workers |-> "none"]
    /\ snap = [w \in Workers |-> VZero(NP)]
    /\ issuedGrad = [w \in Workers |-> VZero(NP)]
    /\ issuedDecay = [w \in Workers |-> VZero(NP)]
    /\ preSync = param
    /\ mergedGrad = VZero(NP)
    /\ mergedDecay = VZero(NP)
    /\ decayCalls = [w \in Workers |-> 0]
    /\ roundsApplied = [w \in Workers |-> 0]
    /\ errHist = [w \in Workers |-> <<>>]
    /\ data = cfg.data
    /\ ip = [w \in Workers |-> 0]
    /\ ret = [w \in Workers |-> <<>>]
    /\ predicted = [w \in Workers |-> <<>>]
    /\ presented = [w \in Workers |-> <<>>]
    /\ updCalls = [w \in Workers |-> <<>>]
    /\ accessed = [w \in Workers |-> {}]
    /\ contrib = [w \in Workers |-> <<>>]
    /\ reported = <<>>


(***************************************************************************)
(* Pieces of the training calls.                                           *)
(***************************************************************************)
\* (mutant) every worker enables regularization on its optimizer
EveryWorkerRegularizes(w) == TRUE
\* SVM::train: only global thread 0 enables regularization on its optimizer
IsRegularizer(w) == w = 0
RegularizationFlag(w) == cfg.cls \in {"svm", "sgd"} /\ IsRegularizer(w)

\* the update calls of the regularization switch of update_param
RegularizeCalls(w) ==
    IF RegularizationFlag(w)
    THEN CASE cfg.norm = 1 -> <<>>
           [] cfg.norm = 2 -> L2Calls(param, cfg.learning_rate, cfg.lambda)
           [] OTHER -> <<>>
    ELSE <<>>

RECURSIVE SumCalls(_, _)
SumCalls(vec, calls) ==
    IF calls = <<>> THEN vec
    ELSE SumCalls([vec EXCEPT ![Head(calls)[1]] = QAdd(@, Head(calls)[2])], Tail(calls))

\* SVM::train, report_per_round: the hinge loss one object adds to loss_agg
SvmLoss(obj, store, nf) ==
    LET prod == QAdd(ParamAt(store, nf), DotSparse(store, obj.x))
    IN  IF QLt(prod, QOne) THEN QAdd(QOne, QNeg(prod)) ELSE QZero

\* this->num_feature_, the index of the bias in the report of SVM::train
NumFeature == NumFeatures(cfg.cls, cfg.ctor)
\* the indices the report lambda of SVM::train passes to param_at
LossIndices(objs, nf) ==
    IF objs = <<>> THEN {}
    ELSE {nf} \cup UNION { FeatureIndices(objs[j].x) : j \in 1..Len(objs) }
\* the log line of the report: error_stat.get_value() / num_samples
ReportValue(stat, n) == QDivInt(stat, n)

RECURSIVE SvmLossSum(_, _, _)
SvmLossSum(objs, store, nf) ==
    IF objs = <<>> THEN QZero
    ELSE QAdd(SvmLoss(Head(objs), store, nf), SvmLossSum(Tail(objs), store, nf))

\* (mutant) the report lambda also writes to the bias
ReportTouchesBias(w) == << <<NP - 1, QOne>> >>
\* the param_list_.update calls of the report lambdas of train and
\* SVM::train: they only read param_list_
ReportUpdates(w) == <<>>

\* (mutant) the test does not exempt round 0
EarlyStopAnyRound(cur, past, r) == QEq(cur, QZero) \/ QLt(past, cur)
\* the early-stopping test of train_test
EarlyStop(cur, past, r) == QEq(cur, QZero) \/ (r # 0 /\ QLt(past, cur))

\* (mutant) the sum of the errors is returned undivided
MeanErrorNoDivide(global_error, n) == global_error
\* Model::avg_error: global_error / num_samples
MeanError(global_error, n) == QDivInt(global_error, n)

\* (mutant) the local copy of the previous round is used again
StaleSnapshot(w) == current_vec[w]
\* update_param: auto current_vec = param_list.get_all_param()
Snapshot(w) == GetAllParam(param)

\* (mutant) the loop runs one round more
LoopOneMore(r, iters) == r <= iters
\* the loop condition of train, train_test and SVM::train
LoopContinues(r, iters) == r < iters

\* (mutant) the early stop returns instead of leaving the loop
BreakReturns == "done"
\* where the break of train_test leads: the statement after the loop
BreakTarget == "exit"

\* (mutant) the synchronization releases nobody
AfterSyncStuck(kind) == "barrier"
\* where a worker continues after the synchronization it waited in
AfterSync(kind) ==
    CASE kind = "count" -> "loop"
      [] kind = "round" -> "post"
      [] kind = "avg_error" -> "returned"
      [] OTHER -> "evaluated"

\* the checks at the start of train / train_test / SVM::train: the message of
\* the first ASSERT_MSG that fails, or "none"
TrainCheck ==
    IF ~(GetNumParam(param) > 0) THEN "The number of parameters is 0."
    ELSE IF cfg.cls \in {"train", "train_test"} /\ ~cfg.gradient_func
         THEN "Gradient function is not specified."
    ELSE IF cfg.cls \in {"train", "train_test"} /\ ~cfg.error_func
         THEN "Error function is not specified."
    ELSE "none"

\* (mutant) update_param does not check the learning rate
UpdateParamCheckNoRate ==
    IF ~cfg.gradient_func THEN "Gradient function is not specified." ELSE "none"
\* the checks at the start of update_param
UpdateParamCheck ==
    IF ~(cfg.learning_rate # QZero) THEN "Learning rate is set to 0."
    ELSE IF ~cfg.gradient_func THEN "Gradient function is not specified."
    ELSE "none"

(***************************************************************************)
(* Actions.                                                                *)
(***************************************************************************)
\* train / train_test / SVM::train up to the loop: the checks and the count
\* of the global number of samples
Enter(w) ==
    /\ pc[w] = "start"
    /\ ip[w] = Len(cfg.before)
    /\ IF TrainCheck # "none"
       THEN /\ error' = [error EXCEPT ![w] = TrainCheck]
            /\ pc' = [pc EXCEPT ![w] = "failed"]
            /\ UNCHANGED <<num_samples_agg, bar>>
       ELSE /\ num_samples_agg' = AggUpdateInt(num_samples_agg, w, Len(data[w]))
            /\ pc' = [pc EXCEPT ![w] = "barrier"]
            /\ bar' = [bar EXCEPT ![w] = "count"]
            /\ UNCHANGED error
    /\ UNCHANGED <<cfg, param, local, round, current_vec, pos, num_samples,
                   error_stat, error_agg, test_samples_agg, pastError, currentError,
                   trained, histVars>>
    /\ UNCHANGED <<modelVars, fnVars, callVars>>

\* the aggregator channel is flushed once every worker has reached the end of
\* its list_execute (or AggregatorFactory::sync()): all buffered updates are
\* summed into the globally visible values
Sync ==
    /\ \A w \in Workers : pc[w] = "barrier"
    /\ param' = MergeParam(param, local, cfg.nw)
    /\ local' = [w \in Workers |-> VZero(NP)]
    /\ num_samples_agg' = AggSyncInt(num_samples_agg, cfg.nw)
    /\ error_stat' = ErrorStatSync(error_stat, cfg.nw)
    /\ error_agg' = AggSyncReset(error_agg, cfg.nw)
    /\ test_samples_agg' = AggSyncResetInt(test_samples_agg, cfg.nw)
    /\ num_samples' = [w \in Workers |->
                          IF bar[w] = "count" THEN num_samples_agg'.value
                          ELSE num_samples[w]]
    /\ pc' = [w \in Workers |-> AfterSync(bar[w])]
    /\ bar' = [w \in Workers |-> "none"]
    /\ preSync' = param
    /\ mergedGrad' = SumBuffers(issuedGrad, cfg.nw, NP)
    /\ mergedDecay' = SumBuffers(issuedDecay, cfg.nw, NP)
    /\ issuedGrad' = [w \in Workers |-> VZero(NP)]
    /\ issuedDecay' = [w \in Workers |-> VZero(NP)]
    /\ roundsApplied' = [w \in Workers |->
                            IF bar[w] = "round" THEN roundsApplied[w] + 1
                            ELSE roundsApplied[w]]
    /\ IF \E w \in Workers : bar[w] = "round"
       THEN /\ contrib' = [w \in Workers |-> <<>>]
            /\ reported' = <<>>
       ELSE UNCHANGED <<contrib, reported>>
    /\ UNCHANGED <<cfg, round, current_vec, pos, pastError, currentError, trained,
                   error, snap, decayCalls, errHist>>
    /\ UNCHANGED <<modelVars, fnVars, updCalls, accessed>>

\* update_param up to its list_execute: the checks, the local copy of the
\* parameters and the regularization
BeginRound(w) ==
    /\ pc[w] = "loop"
    /\ LoopContinues(round[w], cfg.iters)
    /\ IF UpdateParamCheck # "none"
       THEN /\ error' = [error EXCEPT ![w] = UpdateParamCheck]
            /\ pc' = [pc EXCEPT ![w] = "failed"]
            /\ UNCHANGED <<local, current_vec, pos, snap, issuedDecay, decayCalls,
                           accessed>>
       ELSE /\ current_vec' = [current_vec EXCEPT ![w] = Snapshot(w)]
            /\ snap' = [snap EXCEPT ![w] = Snapshot(w)]
            /\ local' = [local EXCEPT ![w] = ApplyCalls(@, RegularizeCalls(w))]
            /\ issuedDecay' = [issuedDecay EXCEPT ![w] = SumCalls(@, RegularizeCalls(w))]
            /\ decayCalls' = [decayCalls EXCEPT ![w] =
                                 IF RegularizationFlag(w) /\ cfg.norm = 2
                                 THEN @ + 1 ELSE @]
            /\ accessed' = [accessed EXCEPT ![w] =
                                 @ \cup CallIndices(RegularizeCalls(w))]
            /\ pos' = [pos EXCEPT ![w] = 0]
            /\ pc' = [pc EXCEPT ![w] = "exec"]
            /\ UNCHANGED error
    /\ updCalls' = [updCalls EXCEPT ![w] = <<>>]
    /\ UNCHANGED <<cfg, param, bar, round, num_samples, num_samples_agg, error_stat,
                   error_agg, test_samples_agg, pastError, currentError, trained,
                   issuedGrad, preSync, mergedGrad, mergedDecay, roundsApplied, errHist>>
    /\ UNCHANGED <<modelVars, fnVars, contrib, reported>>

\* (mutant) the list is visited from its last object to its first
VisitReversed(objs, done) == objs[Len(objs) - done]
\* list_execute(data, ...) hands the objects of data to the lambda one after
\* the other, in list order
Visit(objs, done) == objs[done + 1]

\* one call of the list_execute lambda of update_param
ProcessExample(w) ==
    /\ pc[w] = "exec"
    /\ pos[w] < Len(data[w])
    /\ LET obj == Visit(data[w], pos[w])
           grad == GradientFunc(obj, current_vec[w])
           calls == GradCalls(grad, cfg.learning_rate, Len(data[w]), num_samples[w])
           used == GradientIndices(obj, current_vec[w]) \cup CallIndices(calls)
       IN  /\ accessed' = [accessed EXCEPT ![w] = @ \cup used]
           /\ IF used \subseteq DOMAIN current_vec[w]
              THEN /\ current_vec' = [current_vec EXCEPT ![w] =
                                        GradLocal(@, grad, cfg.learning_rate)]
                   /\ local' = [local EXCEPT ![w] = ApplyCalls(@, calls)]
                   /\ issuedGrad' = [issuedGrad EXCEPT ![w] = SumCalls(@, calls)]
                   /\ updCalls' = [updCalls EXCEPT ![w] = @ \o calls]
                   /\ pos' = [pos EXCEPT ![w] = @ + 1]
                   /\ UNCHANGED <<pc, error>>
              ELSE \* an index outside the vector: the call does not complete
                   /\ pc' = [pc EXCEPT ![w] = "failed"]
                   /\ error' = [error EXCEPT ![w] = "Index out of range."]
                   /\ UNCHANGED <<current_vec, local, issuedGrad, updCalls, pos>>
    /\ UNCHANGED <<cfg, param, bar, round, num_samples, num_samples_agg,
                   error_stat, error_agg, test_samples_agg, pastError, currentError,
                   trained, snap, issuedDecay, preSync, mergedGrad, mergedDecay,
                   decayCalls, roundsApplied, errHist>>
    /\ UNCHANGED <<modelVars, fnVars, contrib, reported>>

\* the end of update_param's list_execute
EndExecute(w) ==
    /\ pc[w] = "exec"
    /\ pos[w] = Len(data[w])
    /\ IF "ac" \in UpdateParamChannels
       THEN /\ pc' = [pc EXCEPT ![w] = "barrier"]
            /\ bar' = [bar EXCEPT ![w] = "round"]
            /\ UNCHANGED roundsApplied
       ELSE /\ pc' = [pc EXCEPT ![w] = "post"]
            /\ roundsApplied' = [roundsApplied EXCEPT ![w] = @ + 1]
            /\ UNCHANGED bar
    /\ UNCHANGED <<cfg, param, local, round, current_vec, pos, num_samples,
                   num_samples_agg, error_stat, error_agg, test_samples_agg,
                   pastError, currentError, trained, error, snap, issuedGrad,
                   issuedDecay, preSync, mergedGrad, mergedDecay, decayCalls, errHist>>
    /\ UNCHANGED <<modelVars, fnVars, callVars>>

\* update_param has returned: the per-round report of train and SVM::train,
\* the avg_error(Test) of train_test up to its synchronization
PostRound(w) ==
    /\ pc[w] = "post"
    /\ CASE cfg.cls = "train_test" ->
              \E e \in 0..cfg.test[w] :
                 /\ error_agg' = AggUpdate(error_agg, w, QInt(e))
                 /\ test_samples_agg' = AggUpdateInt(test_samples_agg, w, cfg.test[w])
                 /\ pc' = [pc EXCEPT ![w] = "barrier"]
                 /\ bar' = [bar EXCEPT ![w] = "avgerr"]
                 /\ UNCHANGED <<error_stat, round, local, contrib, accessed>>
         [] cfg.cls = "train" /\ cfg.report_per_round ->
              \E e \in 0..Len(data[w]) :
                 /\ error_stat' = AggUpdate(error_stat, w, QInt(e))
                 /\ contrib' = [contrib EXCEPT ![w] = <<QInt(e)>>]
                 /\ local' = [local EXCEPT ![w] = ApplyCalls(@, ReportUpdates(w))]
                 /\ pc' = [pc EXCEPT ![w] = "barrier"]
                 /\ bar' = [bar EXCEPT ![w] = "report"]
                 /\ UNCHANGED <<error_agg, test_samples_agg, round, accessed>>
         [] cfg.cls \in {"svm", "sgd"} /\ cfg.report_per_round ->
                 /\ error_stat' = AggUpdate(error_stat, w,
                                     SvmLossSum(data[w], param, NumFeature))
                 /\ contrib' = [contrib EXCEPT ![w] =
                                   <<SvmLossSum(data[w], param, NumFeature)>>]
                 /\ accessed' = [accessed EXCEPT ![w] =
                                    @ \cup LossIndices(data[w], NumFeature)]
                 /\ local' = [local EXCEPT ![w] = ApplyCalls(@, ReportUpdates(w))]
                 /\ pc' = [pc EXCEPT ![w] = "barrier"]
                 /\ bar' = [bar EXCEPT ![w] = "report"]
                 /\ UNCHANGED <<error_agg, test_samples_agg, round>>
         [] OTHER ->
                 /\ round' = [round EXCEPT ![w] = @ + 1]
                 /\ pc' = [pc EXCEPT ![w] = "loop"]
                 /\ UNCHANGED <<error_stat, error_agg, test_samples_agg, bar, local,
                                contrib, accessed>>
    /\ UNCHANGED <<cfg, param, current_vec, pos, num_samples, num_samples_agg,
                   pastError, currentError, trained, error, histVars>>
    /\ UNCHANGED <<modelVars, fnVars, updCalls, reported>>

\* (mutant) only thread 0 gets the aggregate; the others see no error
CurrentErrorOnZero(w) ==
    IF w = 0 THEN QDivInt(error_agg.value, test_samples_agg.value) ELSE QZero
\* train_test: auto currentError = avg_error(Test)
CurrentError(w) == MeanError(error_agg.value, test_samples_agg.value)

\* after the synchronization of the report or of avg_error: the log line of
\* train and SVM::train, the early-stopping test of train_test
AfterEval(w) ==
    /\ pc[w] = "evaluated"
    /\ IF cfg.cls = "train_test"
       THEN LET cur == CurrentError(w)
            IN  /\ currentError' = [currentError EXCEPT ![w] = cur]
                /\ errHist' = [errHist EXCEPT ![w] = Append(@, cur)]
                /\ IF EarlyStop(cur, pastError[w], round[w])
                   THEN /\ pc' = [pc EXCEPT ![w] = BreakTarget]
                        /\ UNCHANGED <<pastError, round>>
                   ELSE /\ pastError' = [pastError EXCEPT ![w] = cur]
                        /\ round' = [round EXCEPT ![w] = @ + 1]
                        /\ pc' = [pc EXCEPT ![w] = "loop"]
                /\ UNCHANGED reported
       ELSE /\ round' = [round EXCEPT ![w] = @ + 1]
            /\ pc' = [pc EXCEPT ![w] = "loop"]
            \* if (Context::get_global_tid() == 0) log_info(...)
            /\ reported' = IF w = 0
                           THEN <<ReportValue(error_stat.value, num_samples[w])>>
                           ELSE reported
            /\ UNCHANGED <<pastError, currentError, errHist>>
    /\ UNCHANGED <<cfg, param, local, bar, current_vec, pos, num_samples,
                   num_samples_agg, error_stat, error_agg, test_samples_agg, trained,
                   error, snap, issuedGrad, issuedDecay, preSync, mergedGrad,
                   mergedDecay, decayCalls, roundsApplied>>
    /\ UNCHANGED <<modelVars, fnVars, updCalls, accessed, contrib>>

\* the loop is left, by its bound or by the break: trained_ = true
Finish(w) ==
    /\ \/ pc[w] = "loop" /\ ~LoopContinues(round[w], cfg.iters)
       \/ pc[w] = "exit"
    /\ trained' = [trained EXCEPT ![w] = TRUE]
    /\ pc' = [pc EXCEPT ![w] = "done"]
    /\ UNCHANGED <<cfg, param, local, bar, round, current_vec, pos, num_samples,
                   num_samples_agg, error_stat, error_agg, test_samples_agg,
                   pastError, currentError, error, histVars>>
    /\ UNCHANGED <<modelVars, fnVars, callVars>>

(***************************************************************************)
(* The calls on the model outside training: Model::predict,                *)
(* Model::avg_error and Model::present_param, made by every worker in the  *)
(* order of cfg.before (before the training call) and cfg.after (after     *)
(* it), on the list the model is trained on.                               *)
(***************************************************************************)
ModelOps == {"predict", "avg_error", "present_param"}

\* the call worker w makes next, or "none"
NextOp(w) ==
    IF pc[w] = "start" /\ ip[w] < Len(cfg.before) THEN cfg.before[ip[w] + 1]
    ELSE IF /\ pc[w] \in {"done", "failed"}
            /\ ip[w] >= Len(cfg.before)
            /\ ip[w] < Len(cfg.before) + Len(cfg.after)
         THEN cfg.after[ip[w] - Len(cfg.before) + 1]
    ELSE "none"

\* where a call made at pc "start" or "done" returns to
Resume(w) == IF ip[w] < Len(cfg.before) THEN "start" ELSE "done"

\* (mutant) the features are lost with the old label
SetLabelOnly(obj, y) == [x |-> <<>>, y |-> y]
\* predict's lambda: y = predict_func_(this_obj, param_list_)
SetLabel(obj, y) == [obj EXCEPT !.y = y]

\* Model::predict.  predict_func_ is the caller's closure: its results are
\* inputs.
Predict(w) ==
    /\ pc[w] \in {"start", "done"}
    /\ NextOp(w) = "predict"
    /\ IF ~cfg.predict_func
       THEN /\ error' = [error EXCEPT ![w] = "Predict function is not specified."]
            /\ pc' = [pc EXCEPT ![w] = "failed"]
            /\ UNCHANGED <<data, ip, predicted>>
       ELSE \E ys \in [1..Len(data[w]) -> Labels] :
               /\ data' = [data EXCEPT ![w] =
                              [j \in 1..Len(data[w]) |-> SetLabel(data[w][j], ys[j])]]
               /\ predicted' = [predicted EXCEPT ![w] = ys]
               /\ ip' = [ip EXCEPT ![w] = @ + 1]
               /\ UNCHANGED <<pc, error>>
    /\ UNCHANGED <<cfg, param, local, bar, round, current_vec, pos, num_samples,
                   num_samples_agg, error_stat, error_agg, test_samples_agg,
                   pastError, currentError, trained, histVars, ret, presented, fnVars,
                   callVars>>

\* the sum of error_func_ over a worker's objects
RECURSIVE ErrorSum(_, _)
ErrorSum(objs, store) ==
    IF objs = <<>> THEN QZero
    ELSE QAdd(QInt(ErrorFunc(Head(objs), store)), ErrorSum(Tail(objs), store))

\* Model::avg_error up to the end of its list_execute.  error_func_ is not
\* checked: calling the empty std::function throws std::bad_function_call on
\* a worker that holds an object.
AvgError(w) ==
    /\ pc[w] \in {"start", "done"}
    /\ NextOp(w) = "avg_error"
    /\ IF ~cfg.error_func /\ Len(data[w]) > 0
       THEN /\ error' = [error EXCEPT ![w] = "bad_function_call"]
            /\ pc' = [pc EXCEPT ![w] = "failed"]
            /\ UNCHANGED <<error_agg, test_samples_agg, bar, accessed>>
       ELSE /\ error_agg' = AggUpdate(error_agg, w, ErrorSum(data[w], param))
            /\ accessed' = [accessed EXCEPT ![w] =
                               @ \cup UNION { ErrorIndices(data[w][j], param) :
                                                j \in 1..Len(data[w]) }]
            /\ test_samples_agg' = AggUpdateInt(test_samples_agg, w, Len(data[w]))
            /\ pc' = [pc EXCEPT ![w] = "barrier"]
            /\ bar' = [bar EXCEPT ![w] = "avg_error"]
            /\ UNCHANGED error
    /\ UNCHANGED <<cfg, param, local, round, current_vec, pos, num_samples,
                   num_samples_agg, error_stat, pastError, currentError, trained,
                   histVars, modelVars, fnVars, updCalls, contrib, reported>>

\* Model::avg_error after the synchronization: return mean_error
AvgErrorReturn(w) ==
    /\ pc[w] = "returned"
    /\ ret' = [ret EXCEPT ![w] =
                  Append(@, MeanError(error_agg.value, test_samples_agg.value))]
    /\ ip' = [ip EXCEPT ![w] = @ + 1]
    /\ pc' = [pc EXCEPT ![w] = Resume(w)]
    /\ UNCHANGED <<cfg, param, local, bar, round, current_vec, pos, num_samples,
                   num_samples_agg, error_stat, error_agg, test_samples_agg,
                   pastError, currentError, trained, error, histVars, data,
                   predicted, presented, fnVars, callVars>>

\* (mutant) the vector is written whatever trained_ is
PresentAlways(w) == TRUE
\* present_param: if (this->trained_ == true)
PresentGuard(w) == trained[w] = TRUE

\* Model::present_param; a driver that has caught the failure of the training
\* call can still make it
PresentParam(w) ==
    /\ pc[w] \in {"start", "done", "failed"}
    /\ NextOp(w) = "present_param"
    /\ presented' = [presented EXCEPT ![w] =
                        IF PresentGuard(w) THEN Append(@, param) ELSE @]
    /\ ip' = [ip EXCEPT ![w] = @ + 1]
    /\ UNCHANGED <<progVars, histVars, data, ret, predicted, fnVars, callVars>>

Next ==
    \/ Sync
    \/ \E w \in Workers : Enter(w)
    \/ \E w \in Workers : BeginRound(w)
    \/ \E w \in Workers : ProcessExample(w)
    \/ \E w \in Workers : EndExecute(w)
    \/ \E w \in Workers : PostRound(w)
    \/ \E w \in Workers : AfterEval(w)
    \/ \E w \in Workers : Finish(w)

(***************************************************************************)
(* One call of a closure of SVM on an object and a parameter vector, as    *)
(* the list_execute lambdas of update_param and avg_error make it.         *)
(***************************************************************************)
CallGradient ==
    /\ closureIn # <<>> /\ gradOut = <<>>
    /\ gradOut' = <<GradientFunc(closureIn[1].obj, closureIn[1].vec)>>
    /\ UNCHANGED <<progVars, histVars, modelVars, closureIn, errOut, callVars>>

CallError ==
    /\ closureIn # <<>> /\ errOut = <<>>
    /\ errOut' = <<ErrorFunc(closureIn[1].obj, closureIn[1].vec)>>
    /\ UNCHANGED <<progVars, histVars, modelVars, closureIn, gradOut, callVars>>

NextClosure == CallGradient \/ CallError

NextModel ==
    \/ Next
    \/ \E w \in Workers : Predict(w)
    \/ \E w \in Workers : AvgError(w)
    \/ \E w \in Workers : AvgErrorReturn(w)
    \/ \E w \in Workers : PresentParam(w)

(***************************************************************************)
(* Specifications.                                                         *)
(*   Spec       every training call, also on a model without parameters    *)
(*              and with learning rate 0, on partitions of at most one     *)
(*              object                                                     *)
(*   SpecRound  two rounds of train and SVM::train on every split of the   *)
(*              list into partitions of at most MaxLocal objects           *)
(*   SpecStop   train_test with every course of the held-out error         *)
(*   SpecSgd    two rounds of SGD with L1 or L2 regularization selected    *)
(*   SpecModel  predict, avg_error and present_param before and after a    *)
(*              training call, with a closure possibly not set             *)
(*   SpecLive   the training calls under fair scheduling, for termination   *)
(*   SpecClosure  one call of the gradient and the error closure of SVM on *)
(*              every object and vector of a grid                          *)
(***************************************************************************)
AllClasses == {"train", "train_test", "svm"}
CtorArgs(c) == {ValidCtor(c), IF c = "svm" THEN -1 ELSE 0, IF c = "svm" THEN -2 ELSE -1}

Configs ==
    UNION { { MkConfig(c, n, it, lr, la, rp, k, "alt", sizes, t) :
                 c \in AllClasses, n \in UNION {CtorArgs(c1) : c1 \in AllClasses},
                 it \in 0..MaxIters, lr \in LearningRates, la \in {Q(1, 2)},
                 rp \in BOOLEAN, sizes \in [0..(k - 1) -> 0..1], t \in 0..1 }
            : k \in 1..MaxWorkers }

ConfigsRound ==
    UNION { { MkConfig(c, ValidCtor(c), 2, lr, la, rp, k, p, sizes, 0) :
                 c \in {"train", "svm"}, lr \in {Q(1, 4), Q(1, 2)},
                 la \in LambdaSet, rp \in BOOLEAN,
                 p \in Patterns,
                 sizes \in { f \in [0..(k - 1) -> 0..MaxLocal] :
                                SumInts(f, k) <= MaxLocal + 1 } }
            : k \in 1..MaxWorkers }

ConfigsStop ==
    UNION { { MkConfig("train_test", ValidCtor("train_test"), it, Q(1, 2), QZero, rp,
                       k, "pos", [w \in 0..(k - 1) |-> 1], t) :
                 it \in 0..MaxIters, rp \in BOOLEAN, t \in 0..MaxTest }
            : k \in 1..MaxWorkers }

\* no closure is being called on its own
NoClosureCall == closureIn = <<>> /\ gradOut = <<>> /\ errOut = <<>>

\* the sequences of at most n calls on the model, in the order of svm.cpp:
\* present_param, then predict, then avg_error
OpRank(op) == CASE op = "present_param" -> 1 [] op = "predict" -> 2 [] OTHER -> 3
Scripts(n) ==
    { sc \in UNION { [1..m -> ModelOps] : m \in 0..n } :
         \A i, j \in 1..Len(sc) : i < j => OpRank(sc[i]) <= OpRank(sc[j]) }
\* every closure set, or one of them not: <<gradient, error, predict>>
ClosureSets == {<<TRUE, TRUE, TRUE>>, <<FALSE, TRUE, TRUE>>,
                <<TRUE, FALSE, TRUE>>, <<TRUE, TRUE, FALSE>>}

\* MaxCalls calls in all, at most one of them before the training call
ScriptPairs ==
    { ba \in Scripts(1) \X Scripts(MaxCalls) : Len(ba[1]) + Len(ba[2]) = MaxCalls }

\* SVM::train reports every round, as svm.cpp sets it; train does not
ConfigsModel ==
    UNION { { [MkConfig(c, ValidCtor(c), it, Q(1, 2), Q(1, 2), c = "svm", k, "alt",
                        sizes, 0)
                 EXCEPT !.gradient_func = f[1], !.error_func = f[2],
                        !.predict_func = f[3], !.before = ba[1], !.after = ba[2]] :
                 c \in {"train", "svm"}, it \in 0..1,
                 sizes \in [0..(k - 1) -> 0..1], f \in ClosureSets,
                 ba \in ScriptPairs }
            : k \in 1..MaxWorkers }

\* SGD driven with either norm selected, and with a learning rate above 1
ConfigsSgd ==
    UNION { { [MkConfig("sgd", ValidCtor("sgd"), 2, lr, Q(1, 2), rp, k, "alt", sizes, 0)
                 EXCEPT !.norm = n] :
                 n \in {1, 2}, lr \in {Q(1, 2), Q(3, 2)}, rp \in BOOLEAN,
                 sizes \in { f \in [0..(k - 1) -> 0..MaxLocal] :
                                SumInts(f, k) <= MaxLocal + 1 } }
            : k \in 1..MaxWorkers }

Init == InitWith(Configs) /\ NoClosureCall
Spec == Init /\ [][Next]_vars

InitRound == InitWith(ConfigsRound) /\ NoClosureCall
SpecRound == InitRound /\ [][Next]_vars

\* the rounds of train and SVM::train with a learning rate of 1/2: the update
\* calls of the lambda and the statistic of the per-round report
ConfigsCalls == { c \in ConfigsRound : c.learning_rate = Q(1, 2) }
InitCalls == InitWith(ConfigsCalls) /\ NoClosureCall
SpecCalls == InitCalls /\ [][Next]_vars

InitStop == InitWith(ConfigsStop) /\ NoClosureCall
SpecStop == InitStop /\ [][Next]_vars

InitSgd == InitWith(ConfigsSgd) /\ NoClosureCall
SpecSgd == InitSgd /\ [][Next]_vars

InitModel == InitWith(ConfigsModel) /\ NoClosureCall

\* the training calls under fair scheduling: every worker is a thread that
\* runs when it can, and the channel is flushed once every worker waits for it
ConfigsLive ==
    UNION { { MkConfig(c, ValidCtor(c), it, lr, Q(1, 2), rp, k, "alt", sizes, t) :
                 c \in AllClasses, it \in 0..2, lr \in LearningRates,
                 rp \in BOOLEAN, sizes \in [0..(k - 1) -> 0..1], t \in 0..1 }
            : k \in 1..MaxWorkers }

\* Fairness is stated on the positions of the workers.  A worker can take a
\* step of its training call exactly when it is at one of the positions of
\* Runnable, and every such step moves pc[w] or pos[w]; the channel can be
\* flushed exactly when every worker waits for it, and the flush moves every
\* pc[w].
PcValues == {"start", "loop", "exec", "barrier", "post", "evaluated", "exit",
             "done", "failed", "returned"}

Runnable(w) ==
    \/ pc[w] = "start" /\ ip[w] = Len(cfg.before)
    \/ pc[w] \in {"loop", "exec", "post", "evaluated", "exit"}

\* a step of worker w: Enter, BeginRound, ProcessExample, EndExecute,
\* PostRound, AfterEval or Finish
WorkerStep(w) ==
    /\ w \in Workers
    /\ Runnable(w)
    /\ \E q \in PcValues, n \in 0..MaxLocal :
          /\ pc' = [pc EXCEPT ![w] = q]
          /\ pos' = [pos EXCEPT ![w] = n]

\* the step Sync
Release ==
    /\ \A w \in Workers : pc[w] = "barrier"
    /\ pc' = [w \in Workers |-> AfterSync(bar[w])]
    /\ pos' = pos

Fairness ==
    /\ WF_<<pc, pos>>(Release)
    /\ \A w \in 0..(MaxWorkers - 1) : WF_<<pc, pos>>(WorkerStep(w))

InitLive == InitWith(ConfigsLive) /\ NoClosureCall
SpecLive == InitLive /\ [][Next]_vars /\ Fairness

\* the arguments of a closure call: an object whose features are absent or
\* hold a value of FeatureValues, and a vector of weights and bias
WeightGrid == { Q(k, 2) : k \in (-MaxWeight)..MaxWeight }
FeatureValues == {1, 2}

RECURSIVE SparseVecs(_)
SparseVecs(nf) ==
    IF nf = 0 THEN {<<>>}
    ELSE { xs \o e : xs \in SparseVecs(nf - 1),
                     e \in {<<>>} \cup { << <<nf - 1, QInt(v)>> >> : v \in FeatureValues } }

ClosureInputs ==
    [obj : [x : SparseVecs(MaxFeatures), y : Labels],
     vec : [0..MaxFeatures -> WeightGrid]]

InitClosure ==
    /\ InitWith({MkConfig("svm", MaxFeatures, 0, Q(1, 2), QZero, FALSE, 1, "pos",
                          [w \in 0..0 |-> 0], 0)})
    /\ closureIn \in { <<in>> : in \in ClosureInputs }
    /\ gradOut = <<>> /\ errOut = <<>>
SpecClosure == InitClosure /\ [][NextClosure]_vars
SpecModel == InitModel /\ [][NextModel]_vars


(***************************************************************************)
(* Properties.                                                             *)
(***************************************************************************)
ZeroVec == VZero(NP)
N == SumInts([w \in Workers |-> Len(cfg.data[w])], cfg.nw)
InRound(w) == pc[w] = "exec" \/ (pc[w] = "barrier" /\ bar[w] = "round")

\* C1: when update_param has returned on a worker, every update call issued in
\* the round by any worker has been added exactly once to the parameter
\* vector: the vector is its value before the round's barrier plus the sum of
\* the deltas of all the calls, and no call of the round is still pending.
C1_UpdatesMergedOnce ==
    \A w \in Workers :
        pc[w] = "post" =>
            /\ param = VAdd(preSync, VAdd(mergedGrad, mergedDecay))
            /\ \A v \in Workers :
                  round[v] = round[w] /\ pc[v] = "post" =>
                      issuedGrad[v] = ZeroVec /\ issuedDecay[v] = ZeroVec

\* both workers have issued updates for the same index and the round is over
C1_Witness ==
    /\ cfg.nw = 2
    /\ Len(cfg.data[0]) = 1 /\ Len(cfg.data[1]) = 1
    /\ cfg.learning_rate = Q(1, 2)
    /\ pc[0] = "post" /\ round[0] = 0
    /\ mergedGrad[NP - 1] = Q(1, 2)
    /\ param[NP - 1] = Q(1, 2)

\* the local copy of a worker after its pass over objs, starting from vec
RECURSIVE LocalPass(_, _, _)
LocalPass(vec, objs, lr) ==
    IF objs = <<>> THEN vec
    ELSE LocalPass(GradLocal(vec, GradientFunc(Head(objs), vec), lr), Tail(objs), lr)

RECURSIVE AllData(_)
AllData(k) == IF k = 0 THEN <<>> ELSE AllData(k - 1) \o cfg.data[k - 1]

EqualSizes == \A v, w \in Workers : Len(cfg.data[v]) = Len(cfg.data[w])

\* the change of worker w's local copy in its pass from vec, weighted by its
\* share of the samples
WeightedStep(vec, w) ==
    IF Len(cfg.data[w]) = 0 THEN VZero(VSize(vec))
    ELSE LET pass == LocalPass(vec, cfg.data[w], cfg.learning_rate)
         IN  [i \in DOMAIN vec |->
                QDivInt(QMul(QAdd(pass[i], QNeg(vec[i])), QInt(Len(cfg.data[w]))), N)]

RECURSIVE WeightedSteps(_, _)
WeightedSteps(vec, k) ==
    IF k = 0 THEN VZero(VSize(vec))
    ELSE VAdd(WeightedSteps(vec, k - 1), WeightedStep(vec, k - 1))

\* C2 as stated: with equal-size partitions the vector after a round is the
\* vector a single worker holding all the data produces from the same start.
C2_EqualsSingleWorker ==
    \A w \in Workers :
        pc[w] = "post" /\ EqualSizes =>
            param = VAdd(LocalPass(preSync, AllData(cfg.nw), cfg.learning_rate),
                         mergedDecay)

\* C2, amended: the vector after a round is the vector at its start, plus the
\* decay, plus the mean of the workers' local passes weighted by their share
\* of the samples (the single worker's pass when there is one worker).
C2_WeightedMeanOfPasses ==
    \A w \in Workers :
        pc[w] = "post" =>
            param = VAdd(VAdd(preSync, mergedDecay), WeightedSteps(preSync, cfg.nw))

\* two equal partitions, and the round has changed the vector
C2_Witness ==
    /\ cfg.nw = 2
    /\ EqualSizes /\ Len(cfg.data[0]) > 0
    /\ pc[0] = "post"
    /\ param # preSync
    /\ param # VAdd(LocalPass(preSync, AllData(cfg.nw), cfg.learning_rate), mergedDecay)

\* update_param has returned on v and v has not yet counted the round
PastRoundBarrier(v) ==
    \/ pc[v] \in {"post", "evaluated"}
    \/ pc[v] = "barrier" /\ bar[v] \in {"report", "avgerr"}

\* C3: a worker that has taken its snapshot of round r holds the synchronized
\* vector of the end of round r-1 (the initial vector in round 0), the same as
\* every other worker in the round, and every worker that has not begun
\* round r has left the barrier of round r-1.
C3_SnapshotAfterBarrier ==
    \A w \in Workers :
        InRound(w) =>
            /\ snap[w] = param
            /\ round[w] = 0 => snap[w] = ZeroVec
            /\ round[w] > 0 /\ ~cfg.report_per_round =>
                  snap[w] = VAdd(preSync, VAdd(mergedGrad, mergedDecay))
            /\ \A v \in Workers :
                  /\ round[v] <= round[w]
                  /\ InRound(v) => round[v] = round[w] /\ snap[v] = snap[w]
                  /\ round[v] < round[w] =>
                        /\ round[v] = round[w] - 1
                        /\ PastRoundBarrier(v)

\* both workers are in round 1 with a snapshot that is not the initial vector
C3_Witness ==
    /\ cfg.nw = 2
    /\ pc[0] = "exec" /\ pc[1] = "exec"
    /\ round[0] = 1 /\ round[1] = 1
    /\ snap[0] # ZeroVec
    /\ snap[1] = snap[0]

\* C4 as stated: the vector handed to the gradient function is the snapshot of
\* step 1 for every object of the round.
C4_SnapshotImmutable ==
    \A w \in Workers : pc[w] = "exec" => current_vec[w] = snap[w]

\* C4, amended: the vector handed to the gradient function is the snapshot of
\* step 1 plus the unscaled deltas of the updates the worker itself has issued
\* for the earlier objects of the round, and nothing else.
C4_SnapshotPlusOwnSteps ==
    \A w \in Workers :
        pc[w] = "exec" =>
            /\ pos[w] = 0 => current_vec[w] = snap[w]
            /\ current_vec[w] = LocalPass(snap[w], SubSeq(cfg.data[w], 1, pos[w]),
                                          cfg.learning_rate)
            /\ \A i \in DOMAIN snap[w] :
                  QMul(QAdd(current_vec[w][i], QNeg(snap[w][i])), QInt(Len(cfg.data[w])))
                     = QMul(issuedGrad[w][i], QInt(num_samples[w]))

\* a worker is about to hand a changed vector to the gradient function
C4_Witness ==
    \E w \in Workers :
        /\ pc[w] = "exec"
        /\ pos[w] = 1 /\ Len(cfg.data[w]) = 2
        /\ current_vec[w] # snap[w]
        /\ cfg.nw = 2


\* the rounds worker w has begun
RoundsBegun(w) == roundsApplied[w] + (IF InRound(w) THEN 1 ELSE 0)

\* C5: in SVM training global thread 0 has applied the decay once in every
\* round it has begun, and no other worker has ever applied it.
C5_OneDecayPerRound ==
    \A w \in Workers :
        decayCalls[w] = (IF cfg.cls = "svm" /\ w = 0 THEN RoundsBegun(w) ELSE 0)

\* SVM training on two workers is over: two decays by thread 0, none by thread 1
C5_Witness ==
    /\ cfg.cls = "svm" /\ cfg.nw = 2
    /\ pc[0] = "done" /\ pc[1] = "done"
    /\ roundsApplied[0] = 2 /\ roundsApplied[1] = 2
    /\ decayCalls[0] = 2 /\ decayCalls[1] = 0

\* C6: in a round of SVM training the decay merged at the barrier is
\* learning_rate * lambda * v_i at every index i, v_i being the value at the
\* start of the round, whatever gradient updates the round holds; and the
\* coordinator has issued the whole decay before its first gradient update,
\* so no gradient update of the round reaches the vector without it.
C6_DecayOfRoundStartValue ==
    cfg.cls = "svm" =>
        /\ \A w \in Workers :
              pc[w] = "post" =>
                 /\ mergedDecay =
                       VScale(preSync, QNeg(QMul(cfg.learning_rate, cfg.lambda)))
                 /\ param = VAdd(VAdd(preSync, mergedDecay), mergedGrad)
        /\ InRound(0) =>
              /\ issuedDecay[0] = VScale(snap[0], QNeg(QMul(cfg.learning_rate, cfg.lambda)))
              /\ param = snap[0]
        /\ \A w \in Workers : w # 0 => issuedDecay[w] = ZeroVec

\* round 1 of SVM training has decayed a non-zero bias and added gradients
C6_Witness ==
    /\ cfg.cls = "svm" /\ cfg.nw = 2
    /\ cfg.lambda = Q(1, 2) /\ cfg.learning_rate = Q(1, 4)
    /\ pc[1] = "post" /\ round[1] = 1
    /\ preSync[NP - 1] = Q(1, 4)
    /\ mergedDecay[NP - 1] = Q(-1, 32)
    /\ mergedGrad[NP - 1] # QZero


\* the stopping rule as stated, on the held-out errors h of rounds 0, 1, ...:
\* round r stops the training
StopRule(h, r) ==
    \/ QEq(h[r + 1], QZero)
    \/ r > 0 /\ QLt(h[r], h[r + 1])

\* C7: train_test has applied the updates of every round whose held-out error
\* it has seen; no round before the last seen one satisfies the stopping
\* rule; once the last seen round satisfies it the loop is left with exactly
\* that many rounds applied; and the loop is left otherwise only after iters
\* rounds.
C7_EarlyStopRule ==
    \A w \in Workers :
        cfg.cls = "train_test" =>
            LET h == errHist[w]
                n == roundsApplied[w]
            IN  /\ n <= cfg.iters
                /\ Len(h) <= n
                /\ \A r \in 0..(Len(h) - 2) : ~StopRule(h, r)
                /\ Len(h) > 0 /\ StopRule(h, Len(h) - 1) =>
                      pc[w] \in {"exit", "done"} /\ n = Len(h)
                /\ pc[w] \in {"exit", "done"} =>
                      /\ Len(h) = n
                      /\ n = cfg.iters \/ (n > 0 /\ StopRule(h, n - 1))

\* the held-out error fell, then rose in round 2: three rounds applied of four
C7_Witness ==
    \E w \in Workers :
        /\ cfg.cls = "train_test" /\ cfg.iters = 4
        /\ pc[w] = "done"
        /\ errHist[w] = <<Q(1, 1), Q(1, 2), Q(1, 1)>>
        /\ roundsApplied[w] = 3

\* C8: when train or SVM::train has finished on a worker, update_param has run
\* exactly iters times on it, whatever the data and report_per_round.
C8_ExactlyItersRounds ==
    \A w \in Workers :
        cfg.cls \in {"train", "svm"} =>
            /\ pc[w] # "exit"
            /\ roundsApplied[w] <= cfg.iters
            /\ pc[w] = "done" => roundsApplied[w] = cfg.iters /\ round[w] = cfg.iters

\* train with the per-round report has finished its MaxIters rounds
C8_Witness ==
    /\ cfg.cls = "train" /\ cfg.report_per_round /\ cfg.iters = MaxIters
    /\ cfg.nw = 2
    /\ pc[0] = "done" /\ pc[1] = "done"
    /\ roundsApplied[0] = MaxIters /\ roundsApplied[1] = MaxIters

\* C9: trained_ is true exactly when the training call has finished on the
\* worker, after all rounds or after an early stop, and is never reset.
C9_TrainedOnlyWhenDone ==
    /\ [](\A w \in Workers : trained[w] <=> pc[w] = "done")
    /\ [][\A w \in Workers : trained[w] => trained'[w]]_vars

\* train_test has stopped early and the model is trained
C9_Witness ==
    \E w \in Workers :
        /\ cfg.cls = "train_test"
        /\ pc[w] = "done" /\ trained[w]
        /\ roundsApplied[w] < cfg.iters

\* C10 as stated: with n <= 0 the construction has failed; with n > 0 the store
\* holds n entries, all 0.0 before training.
C10_FailsOnNonPositive ==
    LET n == NumParamArg(cfg.cls, cfg.ctor)
    IN  /\ n <= 0 => \A w \in Workers : error[w] # "none"
        /\ n > 0 => NP = n

\* C10, amended: with n <= 0 set_num_param allocates nothing and raises
\* nothing; the training call then fails with "The number of parameters is
\* 0." before any round.  With n > 0 the store holds exactly n entries, all
\* 0.0 until training changes them.
C10_NoAllocationOnNonPositive ==
    LET n == NumParamArg(cfg.cls, cfg.ctor)
    IN  /\ n <= 0 =>
              /\ NP = 0
              /\ \A w \in Workers :
                    /\ pc[w] \in {"start", "failed"}
                    /\ pc[w] = "start" => error[w] = "none"
                    /\ pc[w] = "failed" => error[w] = "The number of parameters is 0."
                    /\ ~trained[w] /\ roundsApplied[w] = 0
        /\ n > 0 =>
              /\ NP = n
              /\ (\A w \in Workers : pc[w] = "start") => param = [i \in 0..(n - 1) |-> QZero]
              /\ \A w \in Workers : error[w] # "The number of parameters is 0."

\* a model built with a negative parameter count: nothing allocated, training failed
C10_Witness ==
    /\ NumParamArg(cfg.cls, cfg.ctor) < 0
    /\ NP = 0
    /\ pc[0] = "failed"
    /\ error[0] = "The number of parameters is 0."


\* the calls on the model worker w has completed
CallsDone(w) == SubSeq(cfg.before \o cfg.after, 1, ip[w])
InAvgError(w) == pc[w] = "returned" \/ (pc[w] = "barrier" /\ bar[w] = "avg_error")

\* training calls no unset closure: without a gradient closure no round is
\* begun and no call with iters > 0 completes; without an error closure
\* train does not get past its checks
C11_TrainingChecksClosures ==
    \A w \in Workers :
        /\ ~cfg.gradient_func =>
              /\ ~InRound(w) /\ roundsApplied[w] = 0
              /\ cfg.iters > 0 => ~trained[w]
              /\ cfg.cls = "train" /\ pc[w] = "failed" /\ ip[w] = Len(cfg.before) =>
                    error[w] = "Gradient function is not specified."
        /\ ~cfg.error_func /\ cfg.cls = "train" =>
              /\ ~InRound(w) /\ roundsApplied[w] = 0 /\ ~trained[w]

\* predict without a predict closure fails with its message and sets no label
C11_PredictChecksClosure ==
    \A w \in Workers :
        ~cfg.predict_func =>
            /\ \A i \in 1..ip[w] : CallsDone(w)[i] # "predict"
            /\ predicted[w] = <<>>
            /\ data[w] = cfg.data[w]
            /\ (pc[w] = "failed" /\ cfg.before = <<"predict">>) =>
                  error[w] = "Predict function is not specified."

\* C11: training (train, SVM::train, update_param), predict and avg_error
\* called while the closure they use is not set fail with a "... function is
\* not specified." message and do not call the closure: no round is begun
\* without a gradient closure, no predict completes without a predict
\* closure, and no avg_error gets to its synchronization, returns a value or
\* calls the empty closure (std::bad_function_call) without an error closure.
C11_FailsWhenClosureNotSet ==
    /\ C11_TrainingChecksClosures
    /\ C11_PredictChecksClosure
    /\ \A w \in Workers :
          /\ error[w] # "bad_function_call"
          /\ ~cfg.error_func =>
                /\ ~InAvgError(w)
                /\ \A i \in 1..ip[w] : CallsDone(w)[i] # "avg_error"


RateError == "Learning rate is set to 0."

\* C12 as stated: a training call with learning rate 0 fails with the
\* learning-rate error: it never completes, trained stays false and no other
\* error is raised.
C12_FailsOnZeroRate ==
    cfg.learning_rate = QZero =>
        \A w \in Workers :
            /\ ~trained[w]
            /\ error[w] \in {"none", RateError}

\* C12, amended: with learning rate 0 no snapshot is taken, no update is
\* issued and the parameter vector keeps its initial value.  When the model
\* has parameters and iters >= 1, the call fails in its first update_param
\* with the learning-rate error and trained stays false; with iters = 0
\* update_param is never called and the call completes; without parameters
\* the call fails earlier, with the parameter-count error.
C12_ZeroRateFailsInFirstRound ==
    cfg.learning_rate = QZero =>
        /\ param = ZeroVec
        /\ \A w \in Workers :
              /\ local[w] = ZeroVec /\ snap[w] = ZeroVec /\ current_vec[w] = ZeroVec
              /\ ~InRound(w) /\ roundsApplied[w] = 0 /\ decayCalls[w] = 0
              /\ round[w] = 0
              /\ NP > 0 /\ cfg.iters > 0 =>
                    /\ ~trained[w] /\ pc[w] \in {"start", "barrier", "loop", "failed"}
                    /\ pc[w] = "barrier" => bar[w] = "count"
                    /\ error[w] = (IF pc[w] = "failed" THEN RateError ELSE "none")
              /\ NP > 0 /\ cfg.iters = 0 => error[w] = "none"
              /\ NP = 0 => error[w] # RateError

\* SVM training with learning rate 0 on two workers that hold data: both have
\* failed in the first update_param
C12_Witness ==
    /\ cfg.learning_rate = QZero /\ cfg.cls = "svm" /\ cfg.iters = MaxIters
    /\ cfg.nw = 2 /\ Len(data[0]) = 1 /\ Len(data[1]) = 1
    /\ pc[0] = "failed" /\ pc[1] = "failed"
    /\ error[0] = RateError /\ error[1] = RateError
    /\ num_samples[0] = 2
    /\ param = ZeroVec /\ ~trained[0] /\ ~trained[1]


\* C13: a round run with L1 regularization selected and lambda # 0 is not
\* silently a round without regularization: when the round starts from a
\* non-zero vector, either it fails or a decay has been merged at its barrier.
C13_L1NeverSilent ==
    cfg.norm = 1 /\ cfg.lambda # QZero =>
        \A w \in Workers :
            pc[w] = "post" /\ preSync # ZeroVec /\ RegularizationFlag(0) =>
                mergedDecay # ZeroVec


\* C14: a predict call that completes on a worker sets the label of every
\* object the worker holds to the result of the predict function for that
\* object; the objects' features, the other workers' objects, the parameter
\* vector (its synchronized value and the buffered updates) and the trained
\* flags are the same after the call as before it.
C14_PredictWritesLabelsOnly ==
    [][\A w \in Workers :
          (NextOp(w) = "predict" /\ ip'[w] = ip[w] + 1) =>
              /\ Len(data'[w]) = Len(data[w])
              /\ Len(predicted'[w]) = Len(data[w])
              /\ \A j \in 1..Len(data[w]) :
                    /\ data'[w][j].y = predicted'[w][j]
                    /\ data'[w][j].x = data[w][j].x
              /\ \A v \in Workers \ {w} : data'[v] = data[v]
              /\ param' = param /\ local' = local /\ trained' = trained]_vars

\* after training a worker has predicted a label that differs from the one
\* its object had
C14_Witness ==
    \E w \in Workers :
        /\ trained[w] /\ param # ZeroVec
        /\ Len(data[w]) = 1
        /\ predicted[w] = <<-1>>
        /\ data[w][1].y = -1 /\ cfg.data[w][1].y = 1
        /\ data[w][1].x = cfg.data[w][1].x /\ data[w][1].x # <<>>


\* the objects of all workers that error_func_ counts as errors, and all objects
ErrorObjs == { o \in { <<v, j>> : v \in Workers, j \in 1..MaxLocal } :
                 o[2] <= Len(data[o[1]]) /\ ErrorFunc(data[o[1]][o[2]], param) = 1 }
NumObjs == SumInts([v \in Workers |-> Len(data[v])], cfg.nw)
AvgErrorReturns(w) == pc[w] = "returned" /\ ip'[w] = ip[w] + 1

\* C15: every value avg_error returns is the number of objects of all workers
\* that error_func_ counts as errors under the current parameter vector,
\* divided by the number of objects of all workers, whatever the partition;
\* the i-th call returns the same value on every worker; a call repeated
\* straight after another returns the same value again; and no step of the
\* call changes the parameter vector.
C15_AvgErrorIsGlobalMean ==
    /\ [](\A v, w \in Workers :
            \A i \in 1..Len(ret[v]) : i <= Len(ret[w]) => ret[v][i] = ret[w][i])
    /\ [][\A w \in Workers :
            /\ AvgErrorReturns(w) =>
                  /\ ret'[w] = Append(ret[w], Q(Cardinality(ErrorObjs), NumObjs))
                  /\ (ip[w] > 0 /\ ip[w] # Len(cfg.before)
                         /\ CallsDone(w)[ip[w]] = "avg_error") =>
                        ret'[w][Len(ret'[w])] = ret[w][Len(ret[w])]
            /\ (InAvgError(w) \/ NextOp(w) = "avg_error") /\ pc'[w] # pc[w] =>
                  param' = param]_vars

\* two workers that hold an object each have called avg_error twice after
\* training: the same mean both times and on both workers
C15_Witness ==
    /\ cfg.nw = 2 /\ Len(data[0]) = 1 /\ Len(data[1]) = 1
    /\ trained[0] /\ trained[1] /\ roundsApplied[0] = 1
    /\ Len(ret[0]) = 2 /\ ret[1] = ret[0]
    /\ ret[0][1] = QOne /\ ret[0][2] = QOne


\* C16: a present_param call writes the parameter vector to the log exactly
\* when trained_ is true on the worker; before training and after a training
\* call that failed it writes nothing; whichever it is, the call changes
\* neither the parameter vector nor the trained flag nor the data.  So the
\* log holds something only on a trained worker.
C16_PresentOnlyWhenTrained ==
    /\ [](\A w \in Workers : presented[w] # <<>> => trained[w])
    /\ [][\A w \in Workers :
            (NextOp(w) = "present_param" /\ ip'[w] = ip[w] + 1) =>
                /\ trained[w] => presented'[w] = Append(presented[w], param)
                /\ ~trained[w] => presented'[w] = presented[w]
                /\ pc[w] \in {"start", "failed"} => ~trained[w]
                /\ param' = param /\ local' = local /\ trained' = trained
                /\ data' = data]_vars

\* a worker has called present_param before training, which wrote nothing,
\* and after it, which wrote the trained vector
C16_Witness ==
    \E w \in Workers :
        /\ cfg.before = <<"present_param">> /\ cfg.after = <<"present_param">>
        /\ ip[w] = 2 /\ trained[w]
        /\ param # ZeroVec
        /\ presented[w] = <<param>>


\* the decay a round that starts from vec merges
RoundDecay(vec) ==
    IF cfg.cls \in {"svm", "sgd"} /\ cfg.norm = 2
    THEN VScale(vec, QNeg(QMul(cfg.learning_rate, cfg.lambda)))
    ELSE VZero(VSize(vec))

\* the vector after r rounds, from the data, the initial vector, the learning
\* rate and the regularization alone
RECURSIVE VectorAfter(_)
VectorAfter(r) ==
    IF r = 0 THEN ZeroVec
    ELSE LET vec == VectorAfter(r - 1)
         IN  VAdd(VAdd(vec, RoundDecay(vec)), WeightedSteps(vec, cfg.nw))

\* C17: the parameter vector is at every moment what the data, the initial
\* vector, the learning rate, the regularization and the number of rounds
\* merged so far determine, and so is the snapshot a worker takes at step 1 of
\* a round: they are the same with report_per_round set and not set.  The
\* vector is VectorAfter(0) initially, and every step that changes the vector
\* or the number of merged rounds merges one round: it adds the decay and the
\* workers' weighted steps from the current vector, the step that defines
\* VectorAfter, so the vector after r merged rounds is VectorAfter(r).
C17_ReportIsObservational ==
    /\ param = VectorAfter(0)
    /\ [](\A w \in Workers :
            /\ roundsApplied[w] = roundsApplied[0]
            /\ InRound(w) => snap[w] = param /\ round[w] = roundsApplied[w]
            /\ PastRoundBarrier(w) => round[w] + 1 = roundsApplied[w])
    /\ [][(param' # param \/ roundsApplied' # roundsApplied) =>
             /\ roundsApplied'[0] = roundsApplied[0] + 1
             /\ param' = VAdd(VAdd(param, RoundDecay(param)),
                              WeightedSteps(param, cfg.nw))]_vars

\* SVM training with the per-round report has completed MaxIters rounds on
\* two workers and has moved the vector in the last of them
C17_Witness ==
    /\ cfg.report_per_round /\ cfg.cls = "svm" /\ cfg.nw = 2
    /\ pc[0] = "done" /\ pc[1] = "done"
    /\ roundsApplied[0] = MaxIters
    /\ param # ZeroVec
    /\ param # VectorAfter(MaxIters - 1)


\* the entry of index i of a sparse vector
SparseAt(xs, i) ==
    IF \E k \in 1..Len(xs) : xs[k][1] = i
    THEN xs[CHOOSE k \in 1..Len(xs) : xs[k][1] = i][2]
    ELSE QZero

RECURSIVE WeightedSum(_, _, _)
WeightedSum(vec, xs, n) ==
    IF n = 0 THEN QZero
    ELSE QAdd(WeightedSum(vec, xs, n - 1), QMul(vec[n - 1], SparseAt(xs, n - 1)))

\* y * (w . x + b), b being the last entry of vec
Margin(obj, vec) ==
    QMul(QInt(obj.y), QAdd(WeightedSum(vec, obj.x, VSize(vec) - 1), vec[VSize(vec) - 1]))

\* C18: the gradient closure of SVM returns a vector without entries when the
\* margin y(w.x+b) is 1 or more, and otherwise a vector whose entry at every
\* weight index i is y * x_i and whose entry at the last index is y, with no
\* index named twice.
C18_SvmGradient ==
    gradOut # <<>> =>
        LET obj == closureIn[1].obj
            vec == closureIn[1].vec
            grad == gradOut[1]
            n == VSize(vec)
        IN  IF QLe(QOne, Margin(obj, vec))
            THEN grad = <<>>
            ELSE /\ \A k \in 1..Len(grad) : grad[k][1] \in 0..(n - 1)
                 /\ \A k, l \in 1..Len(grad) : grad[k][1] = grad[l][1] => k = l
                 /\ \A i \in 0..(n - 2) :
                       SparseAt(grad, i) = QMul(QInt(obj.y), SparseAt(obj.x, i))
                 /\ SparseAt(grad, n - 1) = QInt(obj.y)
                 /\ \E k \in 1..Len(grad) : grad[k][1] = n - 1

\* the closure was called on a point exactly on the margin, with a non-zero
\* weight, and returned the vector without entries
C18_Witness ==
    /\ gradOut = << <<>> >>
    /\ Margin(closureIn[1].obj, closureIn[1].vec) = QOne
    /\ closureIn[1].obj.x # <<>>
    /\ closureIn[1].vec[0] # QZero
    /\ closureIn[1].obj.y = -1

\* C19: for a label of -1 or +1 the error closure of SVM returns 1 when
\* y(w.x+b) <= 0, 0 included, and 0 otherwise.
C19_SvmError ==
    errOut # <<>> =>
        LET obj == closureIn[1].obj
            vec == closureIn[1].vec
        IN  /\ obj.y \in {-1, 1}
            /\ errOut[1] = (IF QLe(Margin(obj, vec), QZero) THEN 1 ELSE 0)

\* the closure was called on a point with y(w.x+b) = 0 under non-zero weights
\* and returned 1
C19_Witness ==
    /\ errOut = <<1>>
    /\ Margin(closureIn[1].obj, closureIn[1].vec) = QZero
    /\ closureIn[1].vec[0] # QZero
    /\ closureIn[1].obj.x # <<>>


\* the orders in which a list can be visited
VisitingOrders(objs) ==
    { [k \in 1..Len(objs) |-> objs[q[k]]] :
        q \in { r \in [1..Len(objs) -> 1..Len(objs)] :
                  \A i, j \in 1..Len(objs) : r[i] = r[j] => i = j } }

\* one visiting order for every worker
AllVisitingOrders ==
    { f \in [Workers -> UNION { VisitingOrders(cfg.data[w]) : w \in Workers }] :
        \A w \in Workers : f[w] \in VisitingOrders(cfg.data[w]) }

\* the change of a local copy in a pass over objs from vec, weighted by the
\* share Len(objs) / N of the samples
WeightedStepOn(vec, objs) ==
    IF Len(objs) = 0 THEN VZero(VSize(vec))
    ELSE LET pass == LocalPass(vec, objs, cfg.learning_rate)
         IN  [i \in DOMAIN vec |->
                QDivInt(QMul(QAdd(pass[i], QNeg(vec[i])), QInt(Len(objs))), N)]

RECURSIVE WeightedStepsOn(_, _, _)
WeightedStepsOn(vec, lists, k) ==
    IF k = 0 THEN VZero(VSize(vec))
    ELSE VAdd(WeightedStepsOn(vec, lists, k - 1), WeightedStepOn(vec, lists[k - 1]))

\* the vector a round leaves when it starts from vec and worker w visits its
\* objects in the order lists[w]
RoundResult(vec, lists) ==
    VAdd(VAdd(vec, RoundDecay(vec)), WeightedStepsOn(vec, lists, cfg.nw))

\* C20 as stated: the vector after a round is the same for every interleaving
\* of the workers and for every order in which each worker visits its objects.
C20_SameForEveryVisitingOrder ==
    \A w \in Workers :
        pc[w] = "post" =>
            \A lists \in AllVisitingOrders : param = RoundResult(preSync, lists)

\* C20, amended: for every interleaving of the workers, what a worker has
\* buffered when it reaches the barrier of a round is determined by its
\* snapshot and by its own list in list order, whatever the other workers
\* have done, and the vector after the barrier is determined by the vector at
\* the start of the round and the workers' lists in list order.
C20_DeterministicInListOrder ==
    \A w \in Workers :
        /\ pc[w] = "barrier" /\ bar[w] = "round" =>
              local[w] = VAdd(IF RegularizationFlag(w) THEN RoundDecay(snap[w])
                              ELSE VZero(NP),
                              WeightedStepOn(snap[w], cfg.data[w]))
        /\ pc[w] = "post" =>
              /\ snap[w] = preSync
              /\ param = RoundResult(preSync, cfg.data)

\* two workers have completed a round whose result another visiting order
\* would have changed
C20_Witness ==
    /\ cfg.nw = 2
    /\ pc[0] = "post" /\ pc[1] = "post"
    /\ param = RoundResult(preSync, cfg.data)
    /\ \E lists \in AllVisitingOrders : param # RoundResult(preSync, lists)


\* C21: a call of avg_error on a dataset without any object on any worker
\* returns 0 (or fails with a division error, and then returns nothing): no
\* value it has returned is the outcome of a division by a zero count.
C21_EmptyDatasetDefined ==
    \A w \in Workers :
        \A i \in 1..Len(ret[w]) : NumObjs = 0 => ret[w][i] = QZero


\* one update(featureIndex, learningRate * value * localCount / globalCount)
\* for every non-zero component of a gradient
NamedCalls(grad, lr, nl, ng) ==
    LET nz == SelectSeq(grad, LAMBDA e : e[2] # QZero)
    IN  [k \in 1..Len(nz) |->
            <<nz[k][1], QDivInt(QMul(QMul(lr, nz[k][2]), QInt(nl)), ng)>>]

\* the calls named for the objects objs, visited from the local copy vec
RECURSIVE ExpectedCalls(_, _, _, _, _)
ExpectedCalls(vec, objs, lr, nl, ng) ==
    IF objs = <<>> THEN <<>>
    ELSE LET grad == GradientFunc(Head(objs), vec)
         IN  NamedCalls(grad, lr, nl, ng)
                \o ExpectedCalls(GradLocal(vec, grad, lr), Tail(objs), lr, nl, ng)

RoundContributions == SumQ([w \in Workers |-> contrib[w][1]], cfg.nw)

\* C23: the value thread 0 logs for a round with report_per_round is the sum
\* of what the workers have added to the statistic in the report of that
\* round, divided by the global sample count: nothing of an earlier round is
\* in it.
C23_ReportedIsOfTheRound ==
    reported # <<>> =>
        /\ \A w \in Workers : contrib[w] # <<>>
        /\ reported[1] = QDivInt(RoundContributions, N)

\* SVM training on two workers has logged a non-zero loss for its second
\* round, the loss of the first round having been non-zero too
C23_Witness ==
    /\ cfg.cls = "svm" /\ cfg.nw = 2 /\ cfg.report_per_round
    /\ round[0] = 2 /\ pc[0] = "loop"
    /\ reported # <<>>
    /\ ~QIsNaN(reported[1]) /\ reported[1] # QZero
    /\ SumQ([w \in Workers |-> SvmLossSum(cfg.data[w], VectorAfter(1), NumFeature)],
            cfg.nw) # QZero


\* C24: in train_test any two workers have seen the same held-out error in
\* every round both have evaluated, and a worker that has left the loop has
\* applied at least as many rounds as any other worker has begun: all the
\* workers leave the loop after the same round.
C24_SameStopDecision ==
    cfg.cls = "train_test" =>
        \A v, w \in Workers :
            /\ \A i \in 1..Len(errHist[v]) :
                  i <= Len(errHist[w]) => errHist[v][i] = errHist[w][i]
            /\ pc[v] \in {"exit", "done"} => RoundsBegun(w) <= roundsApplied[v]
            /\ pc[v] = "done" /\ pc[w] = "done" => roundsApplied[v] = roundsApplied[w]

\* two workers have both stopped early after the second round of more, on a
\* held-out error that rose
C24_Witness ==
    /\ cfg.cls = "train_test" /\ cfg.nw = 2 /\ cfg.iters > 2
    /\ pc[0] = "done" /\ pc[1] = "done"
    /\ roundsApplied[0] = 2 /\ roundsApplied[1] = 2
    /\ Len(errHist[1]) = 2
    /\ QLt(errHist[1][1], errHist[1][2])


\* the indices of the features of the training data
DataIndices ==
    UNION { UNION { FeatureIndices(cfg.data[w][j].x) : j \in 1..Len(cfg.data[w]) } :
              w \in Workers }

\* C25: for an SVM constructed with num_features >= 0 on data whose feature
\* indices are below num_features, the parameter count is num_features + 1 in
\* every state of the training call, every index a worker has passed to the
\* parameters (gradient and bias updates, decay, loss and error evaluation)
\* is in 0..num_features, and no call has stopped on an index out of range.
C25_IndicesInRange ==
    (cfg.cls = "svm" /\ cfg.ctor >= 0 /\ DataIndices \subseteq 0..(cfg.ctor - 1)) =>
        /\ GetNumParam(param) = cfg.ctor + 1
        /\ \A w \in Workers :
              /\ accessed[w] \subseteq 0..(GetNumParam(param) - 1)
              /\ error[w] # "Index out of range."
              /\ VSize(current_vec[w]) = cfg.ctor + 1
              /\ VSize(local[w]) = cfg.ctor + 1

\* SVM training with the report has finished on two workers that hold an
\* object each: thread 0 has used every index (decay), thread 1 the index of
\* its feature and the index of the bias
C25_Witness ==
    /\ cfg.cls = "svm" /\ cfg.ctor = MaxFeatures + 1 /\ cfg.nw = 2
    /\ cfg.report_per_round
    /\ pc[0] = "done" /\ pc[1] = "done"
    /\ roundsApplied[1] > 0
    /\ accessed[0] = 0..cfg.ctor
    /\ accessed[1] = {cfg.ctor - 1, cfg.ctor}
    /\ param[cfg.ctor] # QZero


\* the configuration passes every check of the training call
ValidConfiguration ==
    TrainCheck = "none" /\ (cfg.iters > 0 => UpdateParamCheck = "none")

\* the training call is over on every worker, after one update_param per
\* round of the loop
TrainingDone ==
    \A w \in Workers :
        /\ pc[w] = "done" /\ trained[w] = TRUE
        /\ roundsApplied[w] <= cfg.iters
        /\ cfg.cls # "train_test" => roundsApplied[w] = cfg.iters

\* no worker is inside a round: every round begun has been completed by all
NoRoundInProgress == \A w \in Workers : ~InRound(w)

\* C26: under fair scheduling a round that a worker has started is eventually
\* completed by every worker (again and again no round is in progress), and
\* a training call with a valid configuration eventually is over on every
\* worker, with trained set and one completed round per iteration of the
\* loop, and stays so.
C26_RoundsCompleteAndCallTerminates ==
    /\ []<>NoRoundInProgress
    /\ <>[](ValidConfiguration => TrainingDone)

\* train_test on two workers is over after two rounds, both workers having
\* waited at the barriers of both
C26_Witness ==
    /\ ValidConfiguration /\ TrainingDone
    /\ cfg.nw = 2 /\ cfg.iters = 2 /\ cfg.cls = "train_test"
    /\ roundsApplied[0] = 2 /\ roundsApplied[1] = 2
    /\ Len(data[0]) = 1 /\ Len(data[1]) = 1

=============================================================================
